---- MODULE Spec2Model ----
(***************************************************************************)
(* Crowdfunding campaign program (programs/test_project/src/lib.rs).       *)
(*                                                                         *)
(* One Campaign account per (authority, campaign_id), one system-owned     *)
(* lamports vault per campaign, and the three instructions initialize,     *)
(* deposit and finalize.  Every instruction is one atomic step: account    *)
(* validation (the #[derive(Accounts)] constraints), then the handler; an  *)
(* error anywhere reverts every effect of the instruction.                 *)
(*                                                                         *)
(* u64 is modelled as the unsigned range 0..U64_MAX with a small U64_MAX.  *)
(* Lamport balances are naturals.  The rent-exempt minimum the vault must  *)
(* hold is set by the host, not by the program: the model draws it in Init *)
(* (it is positive) and keeps it fixed.  A wallet's balance is what its    *)
(* owner can spend: its own reserve, fees and the rent of the Campaign     *)
(* account (paid once at init and never moved again) are outside it.       *)
(***************************************************************************)
EXTENDS Integers, Sequences, FiniteSets, TLC

\* ------------------------------------------------------------- bounds
U64_MAX == 2
InitialBalance == 2
MaxRent == 1

\* ------------------------------------------------------------- universe
U64 == 0..U64_MAX

Identities == {"alice", "bob"}
CampaignIds == {1}

\* seeds = [b"campaign", creator, campaign_id]
Keys == Identities \X CampaignIds

\* Mutant: the vault seeds leave out the campaign key, so all campaigns
\* share one vault.
VaultAddress_shared(k) == <<"vault_lamports", "", 0>>

\* seeds = [b"vault_lamports", campaign.key()]
VaultAddress(k) == <<"vault_lamports", k[1], k[2]>>
WalletAddress(i) == <<"wallet", i, 0>>

Addresses ==
    {WalletAddress(i) : i \in Identities} \cup {VaultAddress(k) : k \in Keys}

NoAccount == [exists |-> FALSE]

Campaign(funds, target, campaign_id, authority, beneficiary, is_finalized) ==
    [exists |-> TRUE,
     funds |-> funds,
     target |-> target,
     campaign_id |-> campaign_id,
     authority |-> authority,
     beneficiary |-> beneficiary,
     is_finalized |-> is_finalized]

ErrorCode ==
    {"CampaignFinalized", "InvalidAmount", "NothingToFinalize",
     "TargetAlreadyReached", "MathOverflow", "Unauthorized"}

\* Errors raised by account validation and by the System Program.
FrameworkError ==
    {"AccountNotSigner", "AccountNotInitialized", "ConstraintHasOne",
     "AccountAlreadyInUse", "ResultWithNegativeLamports"}

VARIABLES
    campaign,       \* Keys -> Campaign account data, or NoAccount
    lamports,       \* Addresses -> lamports held
    rentVault,      \* rent-exempt minimum of a zero-space account
    offered,        \* history: Keys -> sum of the amounts of successful deposits
    settled         \* history: Keys -> number of successful finalize instructions

vars == <<campaign, lamports, rentVault, offered, settled>>

\* ------------------------------------------------------------- arithmetic
None == -1

\* Mutant: the operands of the subtraction are swapped (funds - target).
checked_sub_swapped(a, b) == IF b - a < 0 THEN None ELSE b - a

checked_sub(a, b) == IF a - b < 0 THEN None ELSE a - b

checked_add(a, b) == IF a + b > U64_MAX THEN None ELSE a + b

min(a, b) == IF a < b THEN a ELSE b

saturating_sub(a, b) == IF a - b < 0 THEN 0 ELSE a - b

\* ------------------------------------------------------------- System Program
\* system_program::transfer: fails when `from` holds less than `amount`.
CanTransfer(l, from, amount) == l[from] >= amount

Transfer(l, from, to, amount) ==
    [[l EXCEPT ![from] = @ - amount] EXCEPT ![to] = @ + amount]

\* An instruction that failed commits nothing: account data and lamports are
\* those of the state before it.
Failed(c, l, err) ==
    [err |-> err, campaign |-> c, lamports |-> l, transfers |-> <<>>]

Succeeded(c, l, transfers) ==
    [err |-> "Ok", campaign |-> c, lamports |-> l, transfers |-> transfers]

\* Mutant: the full minimum is paid whatever the account already holds.
InitRequired_always(l, addr, rent) == rent

\* #[account(init, payer = payer, space = ...)] on the account at `addr`,
\* which holds no data yet: the lamports the payer must add for it to hold
\* the rent-exempt minimum `rent` (create_account when it holds nothing,
\* else a top-up of what is missing).
InitRequired(l, addr, rent) ==
    IF l[addr] = 0 THEN rent ELSE saturating_sub(rent, l[addr])

Pay(l, from, to, amount) == IF amount > 0 THEN Transfer(l, from, to, amount) ELSE l

Paid(from, to, amount) == IF amount > 0 THEN << <<from, to, amount>> >> ELSE <<>>

\* ------------------------------------------------------------- initialize
\* c: the account data at the campaign address; l: all lamports;
\* rv: rent-exempt minimum of the vault.  Both `init` constraints run
\* before the handler body.
\* Mutant: `init` does not refuse an address that already holds a record.
initialize_account_any(c) == TRUE

\* #[account(init, ...)] pub campaign: the address must hold no account yet
initialize_account_free(c) == ~c.exists

\* Mutant: the target is not checked.
initialize_target_any(target) == TRUE

\* require!(target>0, ErrorCode::InvalidAmount)
initialize_target_ok(target) == target > 0

initialize(c, l, rv, creator, beneficiary, campaign_id, target) ==
    LET k == <<creator, campaign_id>>
        payer == WalletAddress(creator)
        forVault == InitRequired(l, VaultAddress(k), rv)
    IN  IF ~initialize_account_free(c) THEN Failed(c, l, "AccountAlreadyInUse")
        ELSE IF ~CanTransfer(l, payer, forVault)
          THEN Failed(c, l, "ResultWithNegativeLamports")
        ELSE IF ~initialize_target_ok(target) THEN Failed(c, l, "InvalidAmount")
        ELSE Succeeded(
               Campaign(0, target, campaign_id, creator, beneficiary, FALSE),
               Pay(l, payer, VaultAddress(k), forVault),
               Paid(payer, VaultAddress(k), forVault))

\* ------------------------------------------------------------- deposit
\* Mutant: the amount is not checked.
deposit_amount_any(amount) == TRUE

\* require!(amount > 0, ErrorCode::InvalidAmount)
deposit_amount_ok(amount) == amount > 0

\* Mutant: a finalized campaign still takes deposits.
deposit_open_any(c) == TRUE

\* require!(!campaign.is_finalized, ErrorCode::CampaignFinalized)
deposit_open(c) == ~c.is_finalized

\* require!(remaining > 0, ErrorCode::TargetAlreadyReached)
deposit_below_target(remaining) == remaining > 0

\* Mutant: the offered amount is taken uncapped.
deposit_counted_uncapped(amount, remaining) == amount

\* let counted = amount.min(remaining)
deposit_counted(amount, remaining) == min(amount, remaining)

\* Mutant: the offered amount, not the counted one, is accounted.
deposit_funds_offered(funds, amount, counted) == checked_add(funds, amount)

\* campaign.funds = campaign.funds.checked_add(counted)
deposit_funds(funds, amount, counted) == checked_add(funds, counted)

\* Mutant: funds are accounted without the transfer into the vault.
deposit_transfer_skipped(l, donor, vault, counted) == l

\* system_program::transfer(donor -> vault_lamports, counted)
deposit_transfer(l, donor, vault, counted) == Transfer(l, donor, vault, counted)

\* Accounts: donor is a Signer; campaign must be an initialized Campaign.
deposit(c, l, donor, k, amount) ==
    IF ~c.exists THEN Failed(c, l, "AccountNotInitialized")
    ELSE IF ~deposit_amount_ok(amount) THEN Failed(c, l, "InvalidAmount")
    ELSE IF ~deposit_open(c) THEN Failed(c, l, "CampaignFinalized")
    ELSE
      LET remaining == checked_sub(c.target, c.funds)
          counted == deposit_counted(amount, remaining)
          funds == deposit_funds(c.funds, amount, counted)
      IN  IF remaining = None THEN Failed(c, l, "MathOverflow")
          ELSE IF ~deposit_below_target(remaining)
            THEN Failed(c, l, "TargetAlreadyReached")
          ELSE IF ~CanTransfer(l, WalletAddress(donor), counted)
            THEN Failed(c, l, "ResultWithNegativeLamports")
          ELSE IF funds = None THEN Failed(c, l, "MathOverflow")
          ELSE Succeeded(
                 [c EXCEPT !.funds = funds],
                 deposit_transfer(l, WalletAddress(donor), VaultAddress(k), counted),
                 << <<WalletAddress(donor), VaultAddress(k), counted>> >>)

\* ------------------------------------------------------------- finalize
\* Accounts, validated in this order before the handler runs: the account in
\* the beneficiary slot must have signed (only the caller signs); the
\* campaign must be an initialized Campaign; has_one = beneficiary;
\* has_one = authority; constraint = !campaign.is_finalized.
\* Mutant: the Finalize accounts carry no is_finalized constraint.
finalize_constraint_absent(c) == TRUE

\* Mutant: the constraint lost its negation.
finalize_constraint_inverted(c) == c.is_finalized

\* constraint = !campaign.is_finalized @ ErrorCode::CampaignFinalized
finalize_constraint(c) == ~c.is_finalized

\* Mutant: a campaign that collected nothing can be finalized.
finalize_amount_any(amount) == TRUE

\* require!(amount > 0, ErrorCode::NothingToFinalize)
finalize_amount_ok(amount) == amount > 0

\* Mutant: the residual is not looked at, so it stays in the vault.
finalize_remaining_ignored(l, vault) == 0

\* let remaining = vault_lamports.lamports(), read after the first transfer
finalize_remaining(l, vault) == l[vault]

\* Mutant: the flag is set but the accounted funds are kept.
finalize_record_keeps_funds(c) == [c EXCEPT !.is_finalized = TRUE]

\* Mutant: the target is zeroed along with the funds.
finalize_record_clears_target(c) ==
    [c EXCEPT !.is_finalized = TRUE, !.funds = 0, !.target = 0]

\* Mutant: funds are zeroed but the flag is not set.
finalize_record_not_flagged(c) == [c EXCEPT !.funds = 0]

\* campaign.is_finalized = true; campaign.funds = 0
finalize_record(c) == [c EXCEPT !.is_finalized = TRUE, !.funds = 0]

finalize(c, l, caller, beneficiary, authority, k) ==
    IF beneficiary # caller THEN Failed(c, l, "AccountNotSigner")
    ELSE IF ~c.exists THEN Failed(c, l, "AccountNotInitialized")
    ELSE IF c.beneficiary # beneficiary THEN Failed(c, l, "ConstraintHasOne")
    ELSE IF c.authority # authority THEN Failed(c, l, "ConstraintHasOne")
    ELSE IF ~finalize_constraint(c) THEN Failed(c, l, "CampaignFinalized")
    ELSE IF beneficiary # c.beneficiary THEN Failed(c, l, "Unauthorized")
    ELSE
      LET amount == c.funds
          vault == VaultAddress(k)
          l1 == Transfer(l, vault, WalletAddress(beneficiary), amount)
          remaining == finalize_remaining(l1, vault)
          l2 == Pay(l1, vault, WalletAddress(authority), remaining)
      IN  IF ~finalize_amount_ok(amount) THEN Failed(c, l, "NothingToFinalize")
          ELSE IF ~CanTransfer(l, vault, amount)
            THEN Failed(c, l, "ResultWithNegativeLamports")
          ELSE Succeeded(
                 finalize_record(c),
                 l2,
                 << <<vault, WalletAddress(beneficiary), amount>> >>
                     \o Paid(vault, WalletAddress(authority), remaining))

\* ------------------------------------------------------------- state machine
Init ==
    /\ campaign = [k \in Keys |-> NoAccount]
    /\ lamports =
         [a \in Addresses |-> IF a[1] = "wallet" THEN InitialBalance ELSE 0]
    /\ rentVault \in 1..MaxRent
    /\ offered = [k \in Keys |-> 0]
    /\ settled = [k \in Keys |-> 0]

Initialize ==
    \E creator \in Identities, beneficiary \in Identities,
       campaign_id \in CampaignIds, target \in U64 :
      LET k == <<creator, campaign_id>>
          r == initialize(campaign[k], lamports, rentVault, creator,
                          beneficiary, campaign_id, target)
      IN  /\ campaign' = [campaign EXCEPT ![k] = r.campaign]
          /\ lamports' = r.lamports
          /\ UNCHANGED <<rentVault, offered, settled>>

Deposit ==
    \E donor \in Identities, k \in Keys, amount \in U64 :
      LET r == deposit(campaign[k], lamports, donor, k, amount)
      IN  /\ campaign' = [campaign EXCEPT ![k] = r.campaign]
          /\ lamports' = r.lamports
          /\ offered' = IF r.err = "Ok" THEN [offered EXCEPT ![k] = @ + amount] ELSE offered
          /\ UNCHANGED <<rentVault, settled>>

Finalize ==
    \E caller \in Identities, beneficiary \in Identities,
       authority \in Identities, k \in Keys :
      LET r == finalize(campaign[k], lamports, caller, beneficiary, authority, k)
      IN  /\ campaign' = [campaign EXCEPT ![k] = r.campaign]
          /\ lamports' = r.lamports
          /\ settled' = IF r.err = "Ok" THEN [settled EXCEPT ![k] = @ + 1] ELSE settled
          /\ UNCHANGED <<rentVault, offered>>

\* A plain System Program transfer of one lamport into a vault address by
\* any wallet: the vault is a system-owned account that anyone may credit.
\* A zero-data account must hold the rent-exempt minimum once the transfer
\* is done.
ExternalDeposit ==
    \E from \in Identities, k \in Keys :
      LET r == Succeeded(NoAccount,
                         Transfer(lamports, WalletAddress(from), VaultAddress(k), 1),
                         << <<WalletAddress(from), VaultAddress(k), 1>> >>)
      IN  /\ CanTransfer(lamports, WalletAddress(from), 1)
          /\ lamports[VaultAddress(k)] + 1 >= rentVault
          /\ lamports' = r.lamports
          /\ UNCHANGED <<campaign, rentVault, offered, settled>>

Next == Initialize \/ Deposit \/ Finalize \/ ExternalDeposit

Spec == Init /\ [][Next]_vars

\* The program alone: no lamports reach a vault from outside it.
NextProgram == Initialize \/ Deposit \/ Finalize

SpecProgram == Init /\ [][NextProgram]_vars

\* ------------------------------------------------------------- properties
Exists(k) == campaign[k].exists

Open(k) == campaign[k].exists /\ ~campaign[k].is_finalized

Custody(k) == lamports[VaultAddress(k)]

\* The instruction left every account as it was.
NoEffect(r, k) ==
    /\ r.campaign = campaign[k]
    /\ r.lamports = lamports
    /\ r.transfers = <<>>

\* C1: in every reachable state, every campaign record has
\* 0 <= funds <= target.
C1_FundsWithinTarget ==
    \A k \in Keys :
      Exists(k) => 0 <= campaign[k].funds /\ campaign[k].funds <= campaign[k].target

\* A campaign filled to its target by deposits that offered more than it needed.
C1_Witness ==
    \E k \in Keys :
      /\ Exists(k)
      /\ campaign[k].funds = campaign[k].target
      /\ offered[k] > campaign[k].target

\* C2: once a campaign is finalized, every finalize by its beneficiary with
\* its authority fails with CampaignFinalized and moves nothing, and no
\* campaign is ever settled successfully more than once.
C2_SecondSettleRefused ==
    \A k \in Keys :
      /\ settled[k] <= 1
      /\ Exists(k) /\ campaign[k].is_finalized =>
           LET c == campaign[k]
               r == finalize(c, lamports, c.beneficiary, c.beneficiary, c.authority, k)
           IN  r.err = "CampaignFinalized" /\ NoEffect(r, k)

\* A settled campaign whose vault address holds lamports again.
C2_Witness ==
    \E k \in Keys :
      /\ settled[k] = 1
      /\ campaign[k].is_finalized
      /\ campaign[k].funds = 0
      /\ Custody(k) > 0

\* C3: a successful deposit of amount A into a campaign with target T and
\* funds F adds exactly min(A, T - F) to funds, takes exactly that from the
\* donor and adds exactly that to the vault; and the funds of an unsettled
\* campaign are min(sum of the amounts offered so far, T).
C3_CapLaw ==
    \A k \in Keys :
      /\ Open(k) =>
           campaign[k].funds =
             IF offered[k] < campaign[k].target THEN offered[k] ELSE campaign[k].target
      /\ \A donor \in Identities, amount \in U64 :
           LET c == campaign[k]
               r == deposit(c, lamports, donor, k, amount)
               room == c.target - c.funds
               counted == IF amount < room THEN amount ELSE room
               from == WalletAddress(donor)
               to == VaultAddress(k)
           IN  r.err = "Ok" =>
                 /\ r.campaign.funds = c.funds + counted
                 /\ r.lamports[from] = lamports[from] - counted
                 /\ r.lamports[to] = lamports[to] + counted
                 /\ r.transfers = << <<from, to, counted>> >>

\* Two or more deposits reached the target, the last one capped, and the
\* vault holds the rent and exactly the counted lamports.
C3_Witness ==
    \E k \in Keys :
      /\ Open(k)
      /\ campaign[k].target = U64_MAX
      /\ campaign[k].funds = campaign[k].target
      /\ offered[k] > campaign[k].target
      /\ Custody(k) = rentVault + campaign[k].funds

\* C4: finalize by any identity other than the record's beneficiary fails
\* with Unauthorized, whatever the state of the campaign and whichever
\* accounts the caller passes, and changes nothing.
C4_UnauthorizedSettle ==
    \A k \in Keys, caller \in Identities, slot \in Identities, authority \in Identities :
      Exists(k) /\ caller # campaign[k].beneficiary =>
        LET r == finalize(campaign[k], lamports, caller, slot, authority, k)
        IN  r.err = "Unauthorized" /\ NoEffect(r, k)

\* C5: a successful finalize of a campaign with funds f and custody c makes
\* the transfer vault -> beneficiary of f, then vault -> authority of c - f
\* when that is positive, leaves the vault at 0 and the record finalized
\* with funds = 0.
C5_SettleDisburses ==
    \A k \in Keys, caller \in Identities, slot \in Identities, authority \in Identities :
      LET c == campaign[k]
          r == finalize(c, lamports, caller, slot, authority, k)
          f == c.funds
          custody == Custody(k)
          vault == VaultAddress(k)
          toBeneficiary == WalletAddress(c.beneficiary)
          toAuthority == WalletAddress(c.authority)
      IN  r.err = "Ok" =>
            /\ r.transfers =
                 << <<vault, toBeneficiary, f>> >>
                   \o (IF custody - f > 0
                         THEN << <<vault, toAuthority, custody - f>> >>
                         ELSE <<>>)
            /\ r.lamports[vault] = 0
            /\ r.lamports =
                 [[[lamports EXCEPT ![vault] = 0]
                             EXCEPT ![toBeneficiary] = @ + f]
                             EXCEPT ![toAuthority] = @ + (custody - f)]
            /\ r.campaign.is_finalized
            /\ r.campaign.funds = 0

\* A settled campaign whose beneficiary is not its authority: the vault is
\* drained and the beneficiary holds more than it started with.
C5_Witness ==
    \E k \in Keys :
      /\ settled[k] = 1
      /\ campaign[k].beneficiary # campaign[k].authority
      /\ Custody(k) = 0
      /\ lamports[WalletAddress(campaign[k].beneficiary)] > InitialBalance

\* C6: a record is created with is_finalized = false; the flag goes from
\* false to true only in a successful finalize, at most once, and never
\* back; while it is true, funds = 0.
C6_FinalizedOnce ==
    /\ [](\A k \in Keys :
            Exists(k) /\ campaign[k].is_finalized => campaign[k].funds = 0)
    /\ [][\A k \in Keys :
            /\ ~Exists(k) /\ campaign'[k].exists => ~campaign'[k].is_finalized
            /\ Exists(k) /\ campaign[k].is_finalized =>
                 campaign'[k].exists /\ campaign'[k].is_finalized
            /\ Open(k) /\ campaign'[k].is_finalized => settled'[k] = settled[k] + 1
            /\ settled'[k] <= 1]_vars

\* A campaign that collected up to its target and was then finalized.
C6_Witness ==
    \E k \in Keys :
      /\ Exists(k)
      /\ campaign[k].is_finalized
      /\ offered[k] >= campaign[k].target
      /\ settled[k] = 1

\* C7: deposit with amount = 0 on an existing campaign fails with
\* InvalidAmount and changes nothing, whatever the campaign's state.
C7_ZeroAmountRejected ==
    \A k \in Keys, donor \in Identities :
      Exists(k) =>
        LET r == deposit(campaign[k], lamports, donor, k, 0)
        IN  r.err = "InvalidAmount" /\ NoEffect(r, k)

\* One campaign is finalized and another is fully funded, and both refuse
\* the zero deposit.
C7_Witness ==
    \E k1 \in Keys, k2 \in Keys, donor \in Identities :
      /\ Exists(k1) /\ campaign[k1].is_finalized
      /\ Open(k2) /\ campaign[k2].funds = campaign[k2].target
      /\ deposit(campaign[k1], lamports, donor, k1, 0).err = "InvalidAmount"
      /\ deposit(campaign[k2], lamports, donor, k2, 0).err = "InvalidAmount"

\* C8: deposit with amount > 0 fails with CampaignFinalized on a finalized
\* campaign, and with TargetAlreadyReached on an unfinalized campaign whose
\* funds equal its target; in both cases nothing changes.
C8_DepositRefused ==
    \A k \in Keys, donor \in Identities, amount \in 1..U64_MAX :
      LET c == campaign[k]
          r == deposit(c, lamports, donor, k, amount)
      IN  /\ Exists(k) /\ c.is_finalized =>
               r.err = "CampaignFinalized" /\ NoEffect(r, k)
          /\ Open(k) /\ c.funds = c.target =>
               r.err = "TargetAlreadyReached" /\ NoEffect(r, k)

\* A donor who could pay is refused by a finalized campaign, and by a fully
\* funded one.
C8_Witness ==
    \E k1 \in Keys, k2 \in Keys, donor \in Identities :
      /\ lamports[WalletAddress(donor)] >= 1
      /\ Exists(k1) /\ campaign[k1].is_finalized
      /\ deposit(campaign[k1], lamports, donor, k1, 1).err = "CampaignFinalized"
      /\ Open(k2) /\ campaign[k2].funds = campaign[k2].target
      /\ deposit(campaign[k2], lamports, donor, k2, 1).err = "TargetAlreadyReached"

\* C9: finalize by the beneficiary on an unfinalized campaign with funds = 0
\* fails with NothingToFinalize and changes nothing; the campaign then
\* still takes a deposit, after which the beneficiary can finalize it.
C9_NothingToFinalize ==
    \A k \in Keys :
      Open(k) /\ campaign[k].funds = 0 =>
        LET c == campaign[k]
            r == finalize(c, lamports, c.beneficiary, c.beneficiary, c.authority, k)
        IN  /\ r.err = "NothingToFinalize"
            /\ NoEffect(r, k)
            /\ ~r.campaign.is_finalized
            /\ \A donor \in Identities :
                 lamports[WalletAddress(donor)] >= 1 =>
                   LET d == deposit(r.campaign, r.lamports, donor, k, 1)
                   IN  /\ d.err = "Ok"
                       /\ finalize(d.campaign, d.lamports, c.beneficiary,
                                    c.beneficiary, c.authority, k).err = "Ok"

\* An open campaign with no funds whose vault holds more than its rent, and
\* a donor who could still contribute.
C9_Witness ==
    \E k \in Keys, donor \in Identities :
      /\ Open(k)
      /\ campaign[k].funds = 0
      /\ Custody(k) > rentVault
      /\ lamports[WalletAddress(donor)] >= 1
      /\ finalize(campaign[k], lamports, campaign[k].beneficiary,
                  campaign[k].beneficiary, campaign[k].authority, k).err
           = "NothingToFinalize"

\* C10: the vault of an unfinalized campaign holds at least the accounted
\* funds, lamports sent to it from outside the program included.
C10_CustodyCoversFunds ==
    \A k \in Keys : Open(k) => Custody(k) >= campaign[k].funds

\* An open campaign with funds whose vault also holds lamports that came
\* from outside the program.
C10_Witness ==
    \E k \in Keys :
      /\ Open(k)
      /\ campaign[k].funds > 0
      /\ Custody(k) > rentVault + campaign[k].funds

C12_ZeroTargetInvalidAmount ==
    \A creator \in Identities, beneficiary \in Identities, campaign_id \in CampaignIds :
      LET k == <<creator, campaign_id>>
          r == initialize(campaign[k], lamports, rentVault, creator,
                          beneficiary, campaign_id, 0)
      IN  r.err = "InvalidAmount" /\ NoEffect(r, k)

\* C12 (amended): every initialize with target = 0 fails and changes nothing;
\* it fails with InvalidAmount when the key has no record yet and the creator
\* holds what the vault lacks of its rent-exempt minimum; and every record
\* has target > 0.
C12_ZeroTargetRejected ==
    /\ \A k \in Keys : Exists(k) => campaign[k].target > 0
    /\ \A creator \in Identities, beneficiary \in Identities,
          campaign_id \in CampaignIds :
         LET k == <<creator, campaign_id>>
             r == initialize(campaign[k], lamports, rentVault, creator,
                             beneficiary, campaign_id, 0)
             vault == VaultAddress(k)
             lacking == IF lamports[vault] > rentVault THEN 0
                        ELSE rentVault - lamports[vault]
         IN  /\ r.err # "Ok"
             /\ NoEffect(r, k)
             /\ ~Exists(k) /\ lamports[WalletAddress(creator)] >= lacking =>
                  r.err = "InvalidAmount"

\* A creator with an open campaign, and another identity with none who can
\* pay the vault's rent: the zero target is refused for both, with
\* InvalidAmount for the one who has no record yet.
C12_Witness ==
    \E k1 \in Keys, k2 \in Keys :
      /\ Exists(k1)
      /\ ~Exists(k2)
      /\ lamports[WalletAddress(k2[1])] >= rentVault
      /\ initialize(campaign[k1], lamports, rentVault, k1[1], k1[1], k1[2], 0).err
           = "AccountAlreadyInUse"
      /\ initialize(campaign[k2], lamports, rentVault, k2[1], k2[1], k2[2], 0).err
           = "InvalidAmount"

\* C13: initialize for a key that already has a record is rejected and
\* changes nothing; no step removes a record, and a finalized record is
\* never changed again, so a settled campaign cannot be opened anew.
C13_NoReopen ==
    /\ [](\A k \in Keys, beneficiary \in Identities, target \in U64 :
            Exists(k) =>
              LET r == initialize(campaign[k], lamports, rentVault, k[1],
                                  beneficiary, k[2], target)
              IN  r.err # "Ok" /\ NoEffect(r, k))
    /\ [][\A k \in Keys :
            /\ Exists(k) => campaign'[k].exists
            /\ Exists(k) /\ campaign[k].is_finalized => campaign'[k] = campaign[k]]_vars

\* A settled campaign whose vault is empty again and whose creator could pay
\* for a new vault: initialize is still refused.
C13_Witness ==
    \E k \in Keys :
      /\ settled[k] = 1
      /\ campaign[k].is_finalized
      /\ Custody(k) = 0
      /\ lamports[WalletAddress(k[1])] >= rentVault
      /\ initialize(campaign[k], lamports, rentVault, k[1], k[1], k[2], 1).err
           = "AccountAlreadyInUse"

\* C14: a deposit that fails changes nothing; a deposit whose donor holds
\* less than the counted amount fails; in every deposit the increase of
\* funds, the increase of the vault and the decrease of the donor's wallet
\* are the same amount; and the vault of an unfinalized campaign holds its
\* rent-exempt minimum and all the accounted funds.
C14_DepositAllOrNothing ==
    \A k \in Keys :
      /\ Open(k) => Custody(k) >= rentVault + campaign[k].funds
      /\ \A donor \in Identities, amount \in U64 :
           LET c == campaign[k]
               r == deposit(c, lamports, donor, k, amount)
               from == WalletAddress(donor)
               vault == VaultAddress(k)
               room == c.target - c.funds
               counted == IF amount < room THEN amount ELSE room
           IN  Exists(k) =>
                 /\ r.err # "Ok" => NoEffect(r, k)
                 /\ r.campaign.funds - c.funds = r.lamports[vault] - lamports[vault]
                 /\ r.lamports[vault] - lamports[vault]
                      = lamports[from] - r.lamports[from]
                 /\ Open(k) /\ amount > 0 /\ room > 0 /\ lamports[from] < counted =>
                      r.err = "ResultWithNegativeLamports"

\* A donor who holds less than what the campaign would count of the offer:
\* the deposit fails on the transfer.
C14_Witness ==
    \E k \in Keys, donor \in Identities :
      /\ Open(k)
      /\ campaign[k].target - campaign[k].funds >= U64_MAX
      /\ lamports[WalletAddress(donor)] < U64_MAX
      /\ lamports[WalletAddress(donor)] > 0
      /\ deposit(campaign[k], lamports, donor, k, U64_MAX).err
           = "ResultWithNegativeLamports"

\* C15: distinct keys have distinct vaults and each record carries its own
\* key; every step changes the record and the vault of at most one key.
C15_Independent ==
    /\ [](\A k1 \in Keys, k2 \in Keys :
            /\ k1 # k2 => VaultAddress(k1) # VaultAddress(k2)
            /\ Exists(k1) =>
                 campaign[k1].authority = k1[1] /\ campaign[k1].campaign_id = k1[2])
    /\ [][\E k0 \in Keys :
            \A k \in Keys \ {k0} :
              /\ campaign'[k] = campaign[k]
              /\ lamports'[VaultAddress(k)] = lamports[VaultAddress(k)]]_vars

\* Two creators used the same campaign_id: one campaign is settled and its
\* vault drained, the other is open and holds funds.
C15_Witness ==
    \E k1 \in Keys, k2 \in Keys :
      /\ k1[1] # k2[1]
      /\ k1[2] = k2[2]
      /\ Exists(k1) /\ campaign[k1].is_finalized /\ Custody(k1) = 0
      /\ Open(k2) /\ campaign[k2].funds > 0
      /\ Custody(k2) = rentVault + campaign[k2].funds

\* C16 (as stated): when vaults receive lamports only through deposit, the
\* vault of an unfinalized campaign holds exactly the accounted funds, and a
\* successful finalize makes no transfer to the authority.
C16_CustodyEqualsFunds ==
    \A k \in Keys :
      Open(k) =>
        LET c == campaign[k]
            r == finalize(c, lamports, c.beneficiary, c.beneficiary, c.authority, k)
        IN  /\ Custody(k) = c.funds
            /\ r.err = "Ok" => Len(r.transfers) = 1

\* C16 (amended): when vaults receive lamports only through deposit, the
\* vault of an unfinalized campaign holds exactly the accounted funds plus
\* its rent-exempt minimum, and a successful finalize transfers exactly that
\* minimum to the authority.
C16_CustodyIsRentPlusFunds ==
    \A k \in Keys :
      Open(k) =>
        LET c == campaign[k]
            r == finalize(c, lamports, c.beneficiary, c.beneficiary, c.authority, k)
        IN  /\ Custody(k) = rentVault + c.funds
            /\ r.err = "Ok" =>
                 /\ Len(r.transfers) = 2
                 /\ r.transfers[2] =
                      <<VaultAddress(k), WalletAddress(c.authority), rentVault>>

\* A partly funded campaign that its beneficiary can finalize.
C16_Witness ==
    \E k \in Keys :
      /\ Open(k)
      /\ campaign[k].funds > 0
      /\ campaign[k].funds < campaign[k].target
      /\ Custody(k) = rentVault + campaign[k].funds
      /\ finalize(campaign[k], lamports, campaign[k].beneficiary,
                  campaign[k].beneficiary, campaign[k].authority, k).err = "Ok"

\* C17: no deposit returns MathOverflow: for every unfinalized campaign
\* target - funds does not underflow and funds + counted does not exceed
\* the largest u64, for every amount.
C17_NoMathOverflow ==
    \A k \in Keys, donor \in Identities, amount \in U64 :
      LET c == campaign[k]
          room == c.target - c.funds
          counted == IF amount < room THEN amount ELSE room
      IN  /\ Exists(k) => deposit(c, lamports, donor, k, amount).err # "MathOverflow"
          /\ Open(k) => room >= 0 /\ c.funds + counted <= U64_MAX

\* A deposit of the largest amount into a campaign whose target is the
\* largest u64 and that lacks one unit: the sum lands on the largest u64.
C17_Witness ==
    \E k \in Keys, donor \in Identities :
      /\ Open(k)
      /\ campaign[k].target = U64_MAX
      /\ campaign[k].funds = U64_MAX - 1
      /\ deposit(campaign[k], lamports, donor, k, U64_MAX).err = "Ok"
      /\ deposit(campaign[k], lamports, donor, k, U64_MAX).campaign.funds = U64_MAX

\* C18: no step changes target, campaign_id, authority or beneficiary of an
\* existing record; deposit changes at most funds, and finalize at most
\* funds and is_finalized, whoever calls them and whether they succeed.
C18_ImmutableFields ==
    /\ [](\A k \in Keys, donor \in Identities, amount \in U64,
            caller \in Identities, slot \in Identities, authority \in Identities :
            Exists(k) =>
              LET c == campaign[k]
                  d == deposit(c, lamports, donor, k, amount).campaign
                  f == finalize(c, lamports, caller, slot, authority, k).campaign
              IN  /\ d = [c EXCEPT !.funds = d.funds]
                  /\ f = [c EXCEPT !.funds = f.funds, !.is_finalized = f.is_finalized])
    /\ [][\A k \in Keys :
            Exists(k) =>
              /\ campaign'[k].exists
              /\ campaign'[k].target = campaign[k].target
              /\ campaign'[k].campaign_id = campaign[k].campaign_id
              /\ campaign'[k].authority = campaign[k].authority
              /\ campaign'[k].beneficiary = campaign[k].beneficiary]_vars

\* A campaign that took deposits and was finalized still carries the target
\* and the identities it was opened with.
C18_Witness ==
    \E k \in Keys :
      /\ settled[k] = 1
      /\ offered[k] > 0
      /\ campaign[k].target = U64_MAX
      /\ campaign[k].authority = k[1]
      /\ campaign[k].beneficiary # campaign[k].authority

\* C19: whenever a campaign is unfinalized and has funds > 0, finalize by
\* its beneficiary with its authority succeeds; the vault holds at least
\* the funds.
C19_SettleAvailable ==
    \A k \in Keys :
      Open(k) /\ campaign[k].funds > 0 =>
        LET c == campaign[k]
        IN  /\ Custody(k) >= c.funds
            /\ finalize(c, lamports, c.beneficiary, c.beneficiary, c.authority, k).err
                 = "Ok"

\* A fully funded campaign whose beneficiary is not its authority and can
\* finalize it.
C19_Witness ==
    \E k \in Keys :
      /\ Open(k)
      /\ campaign[k].funds = campaign[k].target
      /\ campaign[k].beneficiary # campaign[k].authority
      /\ finalize(campaign[k], lamports, campaign[k].beneficiary,
                  campaign[k].beneficiary, campaign[k].authority, k).err = "Ok"

====
